---- MODULE Spec2Model ----
(***************************************************************************)
(* Model of the bounded_cast / numeric_domain header library: conversion   *)
(* of a value from one bounded numeric range to another by clamping and    *)
(* linear rescaling (src/numeric_domain.hpp, src/bounded_cast.hpp) and the *)
(* calls the demo program makes of it (src/test.cpp).                      *)
(*                                                                         *)
(* Scope of the arithmetic.  The integer value types modelled are the      *)
(* ones whose arithmetic is carried out in `int` after the usual integral  *)
(* promotions: int8_t, uint8_t, int16_t, uint16_t and int (int32_t).  int  *)
(* is 32 bits wide, which is exactly the range of the integers of the      *)
(* model checker, so every `int` operation is evaluated with its true      *)
(* width and its overflow is detected rather than computed.  unsigned int, *)
(* the 64-bit types and the floating-point types are not modelled.         *)
(*                                                                         *)
(* Undefined behaviour.  Signed overflow and division by zero are          *)
(* undefined in C++.  An operation that runs into one of them yields a set *)
(* of outcomes: the program faults ("trap": -ftrapv, a sanitizer, SIGFPE   *)
(* on a divide), or it goes on with the value the hardware leaves behind   *)
(* (the two's-complement wrapped result; 0 for a divide on a machine       *)
(* without a divide fault).  Where the product overflows and the two       *)
(* extents are the same number, an optimizing build may also cancel the    *)
(* factor, (d * e) / e being d when nothing overflows (g++ -O1 and above   *)
(* do so for extents known at compile time).  Every outcome records the    *)
(* undefined operations it went through in its field ub.                   *)
(***************************************************************************)
EXTENDS Integers, Sequences, FiniteSets, TLC

VARIABLES
    T,        \* the static domain (a type) on the source side
    U,        \* the static domain (a type) on the destination side
    from,     \* the dynamic_domain object on the source side
    to,       \* the dynamic_domain object on the destination side
    value,    \* the value handed to the conversion
    call,     \* the library call made, "none" before it
    ret,      \* what the call returned
    printed   \* the (min, max) a descriptor query reported

vars == <<T, U, from, to, value, call, ret, printed>>

----------------------------------------------------------------------------
(* The C++ type `int` and its arithmetic.                                  *)

INT_MAX == 2147483647
INT_MIN == -INT_MAX - 1
\* The value bits of int: 1 << n is an int for n < INT_DIGITS.
INT_DIGITS == 31

RECURSIVE Pow2(_)
Pow2(n) == IF n = 0 THEN 1 ELSE 2 * Pow2(n - 1)

\* 1 << n on an int, for the shift counts that stay inside int.
ShiftLeft1(n) == Pow2(n)

\* An outcome: st is "ok" (a value was produced) or "trap" (the program
\* faulted), ub the undefined operations evaluated on the way, and via the
\* routine that produced the result ("none" while only operands are evaluated).
Ok(v) == [st |-> "ok", val |-> v, ub |-> {}, via |-> "none"]
Undefined(v, u) ==
    {[st |-> "ok", val |-> v, ub |-> u, via |-> "none"],
     [st |-> "trap", val |-> 0, ub |-> u, via |-> "none"]}
Via(name, rs) == {[r EXCEPT !.via = name] : r \in rs}

\* What an operation makes of an operand that is itself an outcome: a trap
\* ends the evaluation, and the undefined operations met so far are kept.
Then(x, rs) == IF x.st = "trap" THEN {x} ELSE {[r EXCEPT !.ub = x.ub \cup r.ub] : r \in rs}

\* a / b in exact arithmetic, rounded toward zero, for b # 0 and a quotient in int.
TruncDiv(a, b) ==
    IF b > 0 THEN (IF a >= 0 THEN a \div b ELSE (a + (b - 1)) \div b)
    ELSE IF b = INT_MIN THEN (IF a = INT_MIN THEN 1 ELSE 0)
    ELSE IF a = INT_MIN THEN (INT_MAX \div (-b)) + (IF INT_MAX % (-b) = (-b) - 1 THEN 1 ELSE 0)
    ELSE IF a >= 0 THEN -(a \div (-b))
    ELSE (-a) \div (-b)

AddOverflows(a, b) == (b > 0 /\ a > INT_MAX - b) \/ (b < 0 /\ a < INT_MIN - b)
WrapAdd(a, b) ==
    IF ~AddOverflows(a, b) THEN a + b
    ELSE IF b > 0 THEN (a + INT_MIN) + (b + INT_MIN)
    ELSE (a - INT_MIN) + (b - INT_MIN)

SubOverflows(a, b) == (b < 0 /\ a > INT_MAX + b) \/ (b > 0 /\ a < INT_MIN + b)
WrapSub(a, b) ==
    IF ~SubOverflows(a, b) THEN a - b
    ELSE IF b < 0 THEN (a + INT_MIN) - (b - INT_MIN)
    ELSE (a - INT_MIN) - (b + INT_MIN)

MulOverflows(a, b) ==
    IF a = 0 \/ b = 0 THEN FALSE
    ELSE IF a > 0 /\ b > 0 THEN a > INT_MAX \div b
    ELSE IF a > 0 /\ b < 0 THEN b < TruncDiv(INT_MIN, a)
    ELSE IF a < 0 /\ b > 0 THEN a < TruncDiv(INT_MIN, b)
    ELSE a = INT_MIN \/ b = INT_MIN \/ (-a) > INT_MAX \div (-b)

\* (x * y) mod 2^16 for 0 <= x, y < 2^16, through products that stay inside int.
MulMod16(x, y) == (x * (y % 256) + ((x * (y \div 256)) % 256) * 256) % 65536

\* The low 32 bits of a * b read as an int: the product of the 16-bit halves.
WrapMul(a, b) ==
    LET al == a % 65536
        ah == (a \div 65536) % 65536
        bl == b % 65536
        bh == (b \div 65536) % 65536
        p0 == al * (bl % 256)
        p1 == al * (bl \div 256)
        t  == p0 + (p1 % 256) * 256
        lo == t % 65536
        c  == (t \div 65536) + (p1 \div 256)
        hi == (c + MulMod16(ah, bl) + MulMod16(al, bh)) % 65536
    IN IF hi >= 32768 THEN (hi - 65536) * 65536 + lo ELSE hi * 65536 + lo

\* The four int operations of the conversion, each the set of its outcomes.
IntAdd(a, b) == IF AddOverflows(a, b) THEN Undefined(WrapAdd(a, b), {"overflow"}) ELSE {Ok(a + b)}
IntSub(a, b) == IF SubOverflows(a, b) THEN Undefined(WrapSub(a, b), {"overflow"}) ELSE {Ok(a - b)}
IntMul(a, b) == IF MulOverflows(a, b) THEN Undefined(WrapMul(a, b), {"overflow"}) ELSE {Ok(a * b)}
IntDiv(a, b) ==
    IF b = 0 THEN Undefined(0, {"div_by_zero"})
    ELSE IF a = INT_MIN /\ b = -1 THEN Undefined(INT_MIN, {"overflow"})
    ELSE {Ok(TruncDiv(a, b))}

----------------------------------------------------------------------------
(* The integer value types and std::numeric_limits.                        *)

IntegerTypes == {"int8_t", "uint8_t", "int16_t", "uint16_t", "int"}

is_signed(vt) == vt \in {"int8_t", "int16_t", "int"}
digits(vt) == CASE vt \in {"int8_t", "uint8_t"} -> 8
                [] vt \in {"int16_t", "uint16_t"} -> 16
                [] OTHER -> 32

numeric_limits_max(vt) ==
    IF is_signed(vt) THEN (Pow2(digits(vt) - 2) - 1) + Pow2(digits(vt) - 2)
    ELSE Pow2(digits(vt)) - 1
numeric_limits_min(vt) == IF is_signed(vt) THEN -numeric_limits_max(vt) - 1 ELSE 0

\* static_cast<vt>(x) of an int x: the value modulo 2^digits.
static_cast(vt, x) ==
    IF vt = "int" THEN x
    ELSE LET m == x % Pow2(digits(vt))
         IN IF is_signed(vt) /\ m >= Pow2(digits(vt) - 1) THEN m - Pow2(digits(vt)) ELSE m

----------------------------------------------------------------------------
(* numeric_domain.hpp: static domains.  A static domain is the type that   *)
(* names it: an arithmetic type, or a tag arithmetic_t<T, Min, Max,        *)
(* RatioScaler>.  Two static domains are the same type iff the records are *)
(* equal.                                                                  *)

arithmetic(vt) == [tag |-> "arithmetic", T |-> vt, Min |-> 0, Max |-> 0, num |-> 1, den |-> 1]
arithmetic_t(vt, Min, Max, num, den) ==
    [tag |-> "arithmetic_t", T |-> vt, Min |-> Min, Max |-> Max, num |-> num, den |-> den]

unsigned_int(Bits) == arithmetic_t("int", 0, ShiftLeft1(Bits) - 1, 1, 1)

\* signed_int as it would be with the minimum written as the negated maximum.
signed_int_symmetric(Bits) ==
    arithmetic_t("int", -(ShiftLeft1(Bits - 1) - 1), ShiftLeft1(Bits - 1) - 1, 1, 1)

signed_int(Bits) == arithmetic_t("int", -ShiftLeft1(Bits - 1), ShiftLeft1(Bits - 1) - 1, 1, 1)

value_type_of(D) == D.T

numeric_domain_min(D) ==
    IF D.tag = "arithmetic" THEN numeric_limits_min(D.T)
    ELSE static_cast(D.T, TruncDiv(D.num * static_cast(D.T, D.Min), D.den))
numeric_domain_max(D) ==
    IF D.tag = "arithmetic" THEN numeric_limits_max(D.T)
    ELSE static_cast(D.T, TruncDiv(D.num * static_cast(D.T, D.Max), D.den))

\* extent_type_of<T> is decltype(value - value): int for every modelled type.
extent_of(D) == IntSub(numeric_domain_max(D), numeric_domain_min(D))

----------------------------------------------------------------------------
(* numeric_domain.hpp: dynamic domains.                                    *)

dynamic_domain(vt, m, M) == [T |-> vt, min |-> m, max |-> M]
extent(d) == IntSub(d.max, d.min)
make_domain(vt, m, M) == dynamic_domain(vt, m, M)
make_domain_of(D) == dynamic_domain(value_type_of(D), numeric_domain_min(D), numeric_domain_max(D))

----------------------------------------------------------------------------
(* numeric_domain.hpp: the conversion.                                     *)

std_min(a, b) == IF b < a THEN b ELSE a
std_max(a, b) == IF a < b THEN b ELSE a

\* The quotients of a build that simplifies (d * uextent) / textent to d for
\* equal extents, where the product overflows; diff is the outcomes of d.
cancel_equal_extents(diff, textent, uextent) ==
    {[x EXCEPT !.ub = x.ub \cup {"overflow"}] :
        x \in {y \in diff : /\ y.st = "ok"
                            /\ textent = uextent /\ textent # 0
                            /\ MulOverflows(y.val, uextent)}}

\* domain_convert as it would be with the quotient rounded to nearest: half
\* the source extent is added before the division.
domain_convert_rounding(Uvt, t, tmin, tmax, textent, umin, uextent) ==
    LET bounded == std_max(tmin, std_min(tmax, t))
        diff == IntSub(bounded, tmin)
        scaled == UNION {Then(x, IntMul(x.val, uextent)) : x \in diff}
        biased == UNION {Then(x, IntAdd(x.val, TruncDiv(textent, 2))) : x \in scaled}
        quot == UNION {Then(x, IntDiv(x.val, textent)) : x \in biased}
        rescaled == UNION {Then(x, IntAdd(umin, x.val)) : x \in quot}
    IN Via("domain_convert", UNION {Then(x, {Ok(static_cast(Uvt, x.val))}) : x \in rescaled})

\* domain_convert as it would be with a branch for a source of zero extent
\* that returns the destination's minimum instead of dividing.
domain_convert_guarded(Uvt, t, tmin, tmax, textent, umin, uextent) ==
    LET bounded == std_max(tmin, std_min(tmax, t))
        diff == IntSub(bounded, tmin)
        scaled == UNION {Then(x, IntMul(x.val, uextent)) : x \in diff}
        quot == UNION {Then(x, IntDiv(x.val, textent)) : x \in scaled}
                \cup cancel_equal_extents(diff, textent, uextent)
        rescaled == UNION {Then(x, IntAdd(umin, x.val)) : x \in quot}
    IN Via("domain_convert",
           IF textent = 0 THEN {Ok(static_cast(Uvt, umin))}
           ELSE UNION {Then(x, {Ok(static_cast(Uvt, x.val))}) : x \in rescaled})

\* domain_convert<U>(t, tmin, tmax, textent, umin, uextent); Uvt is U.
domain_convert(Uvt, t, tmin, tmax, textent, umin, uextent) ==
    LET bounded == std_max(tmin, std_min(tmax, t))
        diff == IntSub(bounded, tmin)
        scaled == UNION {Then(x, IntMul(x.val, uextent)) : x \in diff}
        quot == UNION {Then(x, IntDiv(x.val, textent)) : x \in scaled}
                \cup cancel_equal_extents(diff, textent, uextent)
        rescaled == UNION {Then(x, IntAdd(umin, x.val)) : x \in quot}
    IN Via("domain_convert", UNION {Then(x, {Ok(static_cast(Uvt, x.val))}) : x \in rescaled})

\* The call domain_convert(..., textent, ..., uextent) with both extents
\* evaluated first, each an outcome of its own.
convert_with(Uvt, t, tmin, tmax, textents, umin, uextents) ==
    UNION {Then(te, UNION {Then(ue, domain_convert(Uvt, t, tmin, tmax, te.val, umin, ue.val))
                           : ue \in uextents})
           : te \in textents}

\* domain_caster<U,T>()(value), and its specialization domain_caster<U,U>.
domain_caster(Ud, Td, v) ==
    IF Ud = Td THEN Via("domain_caster<U,U>", {Ok(v)})
    ELSE convert_with(value_type_of(Ud), v, numeric_domain_min(Td), numeric_domain_max(Td),
                      extent_of(Td), numeric_domain_min(Ud), extent_of(Ud))

\* domain_cast<U,T>(value)
domain_cast(Ud, Td, v) == domain_caster(Ud, Td, v)

\* domain_cast(to, value, from)
domain_cast_dynamic(dto, v, dfrom) ==
    convert_with(dto.T, v, dfrom.min, dfrom.max, extent(dfrom), dto.min, extent(dto))

\* domain_cast<T>(to, value)
domain_cast_to_dynamic(Td, dto, v) ==
    convert_with(dto.T, v, numeric_domain_min(Td), numeric_domain_max(Td), extent_of(Td),
                 dto.min, extent(dto))

\* domain_cast<U>(value, from)
domain_cast_from_dynamic(Ud, v, dfrom) == domain_cast_dynamic(make_domain_of(Ud), v, dfrom)

----------------------------------------------------------------------------
(* bounded_cast.hpp: the earlier form of the library.  bounds_of<T> also   *)
(* names an extent_type: std::uintmax_t for the arithmetic types and for   *)
(* unsigned_int<Bits>, std::intmax_t for signed_int<Bits>.  The domains    *)
(* bounded_cast is applied to here have bounds of at most 16 bits, so the  *)
(* 64-bit arithmetic of its extents never wraps and is evaluated exactly.  *)

arithmetic_type(vt, E, Min, Max, num, den) ==
    [tag |-> "arithmetic_type", T |-> vt, E |-> E, Min |-> Min, Max |-> Max, num |-> num, den |-> den]
bc_arithmetic(vt) ==
    [tag |-> "arithmetic", T |-> vt, E |-> "uintmax_t", Min |-> 0, Max |-> 0, num |-> 1, den |-> 1]
bc_unsigned_int(Bits) == arithmetic_type("int", "uintmax_t", 0, ShiftLeft1(Bits) - 1, 1, 1)
bc_signed_int(Bits) ==
    arithmetic_type("int", "intmax_t", -ShiftLeft1(Bits - 1), ShiftLeft1(Bits - 1) - 1, 1, 1)

bounds_of_min(D) ==
    IF D.tag = "arithmetic" THEN numeric_limits_min(D.T)
    ELSE static_cast(D.T, TruncDiv(D.num * static_cast(D.T, D.Min), D.den))
bounds_of_max(D) ==
    IF D.tag = "arithmetic" THEN numeric_limits_max(D.T)
    ELSE static_cast(D.T, TruncDiv(D.num * static_cast(D.T, D.Max), D.den))

\* extent_of<T>() of bounded_cast.hpp, the subtraction done in extent_type.
bc_extent_of(D) == bounds_of_max(D) - bounds_of_min(D)

\* (d * e) / t of 64-bit operands 0 <= d <= t < 2^16, 0 <= e < 2^16, by long
\* division in base 256 so that no partial product leaves int.
wide_muldiv(d, e, t) ==
    LET A == d * (e \div 256)
        B == (A % t) * 256 + d * (e % 256)
    IN (A \div t) * 256 + (B \div t)

\* bounded_cast<U,T>(value)
bounded_cast(Ud, Td, v) ==
    LET bounded == std_max(bounds_of_min(Td), std_min(bounds_of_max(Td), v))
        diff == bounded - bounds_of_min(Td)
    IN Via("bounded_cast",
           IF bc_extent_of(Td) = 0 THEN Undefined(bounds_of_min(Ud), {"div_by_zero"})
           ELSE {Ok(static_cast(Ud.T, bounds_of_min(Ud)
                                      + wide_muldiv(diff, bc_extent_of(Ud), bc_extent_of(Td))))})

\* The number of bits of m >= 0.
RECURSIVE BitLength(_)
BitLength(m) == IF m <= 0 THEN 0 ELSE 1 + BitLength(m \div 2)

\* The type of bounded_cast.hpp that names the same domain as a type of
\* numeric_domain.hpp: the arithmetic type itself, the alias of the same
\* name and width, or the tag with the same bounds (extent_type defaults to
\* the value type).
bounds_of(D) ==
    IF D.tag = "arithmetic" THEN bc_arithmetic(D.T)
    ELSE IF D.Max < INT_MAX /\ D = signed_int(BitLength(D.Max) + 1)
         THEN bc_signed_int(BitLength(D.Max) + 1)
    ELSE IF D = unsigned_int(BitLength(D.Max)) THEN bc_unsigned_int(BitLength(D.Max))
    ELSE arithmetic_type(D.T, D.T, D.Min, D.Max, D.num, D.den)

----------------------------------------------------------------------------
(* The program: the calls of test.cpp, over sampled domains and values.    *)

\* Values -SmallValues .. SmallValues are tried next to the landmark values.
SmallValues == 2

Landmarks == {INT_MIN, -32768, -128, 127, 255, 600, 2047, 6000, 32767, 65535, INT_MAX}

SampleValues(vt) ==
    {x \in Landmarks \cup (-SmallValues .. SmallValues) :
        numeric_limits_min(vt) <= x /\ x <= numeric_limits_max(vt)}

StaticDomains ==
    {arithmetic(vt) : vt \in IntegerTypes}
    \cup {unsigned_int(0), unsigned_int(12), unsigned_int(16), signed_int(7)}
    \cup {arithmetic_t("int", -1, 1, 1, 1), arithmetic_t("int", 0, 100, 1, 2)}

\* The bounds a caller passes to make_domain(min, max): a sub-range, a
\* single point, and a pair the wrong way round.
BoundPairs == {<<0, 100>>, <<5, 5>>, <<50, 10>>}

DynamicDomains(D) ==
    {make_domain_of(D)} \cup {make_domain(value_type_of(D), p[1], p[2]) : p \in BoundPairs}

\* The static domains bounded_cast is applied to (bounds of at most 16 bits).
NarrowDomains == {D \in StaticDomains : D # arithmetic("int")}

NoResult == [st |-> "none", val |-> 0, ub |-> {}, via |-> "none"]

Init ==
    /\ T \in StaticDomains
    /\ U \in StaticDomains
    /\ from \in DynamicDomains(T)
    /\ to \in DynamicDomains(U)
    /\ value \in SampleValues(value_type_of(T))
    /\ call = "none"
    /\ ret = NoResult
    /\ printed = <<>>

Return(name, r) ==
    /\ call = "none"
    /\ call' = name
    /\ ret' = r
    /\ UNCHANGED <<T, U, from, to, value, printed>>

\* domain_cast<U,T>(value)
StaticToStatic == \E r \in domain_cast(U, T, value) : Return("static_static", r)
\* domain_cast<T>(to, value)
StaticToDynamic == \E r \in domain_cast_to_dynamic(T, to, value) : Return("static_dynamic", r)
\* domain_cast<U>(value, from)
DynamicToStatic == \E r \in domain_cast_from_dynamic(U, value, from) : Return("dynamic_static", r)
\* domain_cast(to, value, from)
DynamicToDynamic == \E r \in domain_cast_dynamic(to, value, from) : Return("dynamic_dynamic", r)
\* bounded_cast<U,T>(value)
BoundedCast ==
    /\ T \in NarrowDomains /\ U \in NarrowDomains
    /\ \E r \in bounded_cast(bounds_of(U), bounds_of(T), value) : Return("bounded_cast", r)

Next == StaticToStatic \/ StaticToDynamic \/ DynamicToStatic \/ DynamicToDynamic \/ BoundedCast

Spec == Init /\ [][Next]_vars

----------------------------------------------------------------------------
(* The domain descriptors on their own: every arithmetic type and every    *)
(* unsigned_int<Bits> and signed_int<Bits> whose bounds are int constants, *)
(* queried for its bounds and its extent as print_min_and_max_of_bounds    *)
(* and extent_of do.                                                       *)

DescribedDomains ==
    {arithmetic(vt) : vt \in IntegerTypes}
    \cup {unsigned_int(n) : n \in 0 .. INT_DIGITS - 1}
    \cup {signed_int(n) : n \in 1 .. INT_DIGITS}

InitDomain ==
    /\ T \in DescribedDomains
    /\ U = T
    /\ from = make_domain_of(T)
    /\ to = make_domain_of(T)
    /\ value = 0
    /\ call = "none"
    /\ ret = NoResult
    /\ printed = <<>>

Query(name, r, p) ==
    /\ call = "none"
    /\ call' = name
    /\ ret' = r
    /\ printed' = p
    /\ UNCHANGED <<T, U, from, to, value>>

\* print_min_and_max_of_bounds<T>(): numeric_domain<T>::min() and max()
PrintMinAndMax ==
    /\ T \in DescribedDomains
    /\ Query("numeric_domain", NoResult, <<numeric_domain_min(T), numeric_domain_max(T)>>)
\* bounds_of<T>::min() and max() of bounded_cast.hpp
PrintBoundsOf ==
    /\ T \in DescribedDomains
    /\ Query("bounds_of", NoResult, <<bounds_of_min(bounds_of(T)), bounds_of_max(bounds_of(T))>>)
\* extent_of<T>()
ExtentOf == \E r \in extent_of(T) : Query("extent_of", r, <<>>)
\* make_domain<T>().extent()
DynamicExtent == \E r \in extent(from) : Query("extent", r, <<>>)

NextDomain == PrintMinAndMax \/ PrintBoundsOf \/ ExtentOf \/ DynamicExtent

SpecDomain == InitDomain /\ [][NextDomain]_vars

----------------------------------------------------------------------------
(* What the last call converted from and to.                               *)

DomainCasts == {"static_static", "static_dynamic", "dynamic_static", "dynamic_dynamic"}
DynamicSource == call \in {"dynamic_static", "dynamic_dynamic"}
DynamicDestination == call \in {"static_dynamic", "dynamic_dynamic"}

SrcMin == IF DynamicSource THEN from.min ELSE numeric_domain_min(T)
SrcMax == IF DynamicSource THEN from.max ELSE numeric_domain_max(T)
DstMin == IF DynamicDestination THEN to.min ELSE numeric_domain_min(U)
DstMax == IF DynamicDestination THEN to.max ELSE numeric_domain_max(U)
DstType == IF DynamicDestination THEN to.T ELSE value_type_of(U)

WellFormed == SrcMin < SrcMax /\ DstMin <= DstMax
Returned == call \in DomainCasts /\ ret.st = "ok"

\* What a caller can see of an outcome.
Observable(r) == <<r.st, r.val>>

\* The outcomes of the call `c` on the value v, with the domains of the state.
OutcomesOf(c, v) ==
    CASE c = "static_static" -> domain_cast(U, T, v)
      [] c = "static_dynamic" -> domain_cast_to_dynamic(T, to, v)
      [] c = "dynamic_static" -> domain_cast_from_dynamic(U, v, from)
      [] c = "dynamic_dynamic" -> domain_cast_dynamic(to, v, from)

\* clamp(v, lo, hi) for lo <= hi
Clamp(v, lo, hi) == IF v < lo THEN lo ELSE IF hi < v THEN hi ELSE v

Abs(x) == IF x < 0 THEN -x ELSE x
\* n / t rounded toward zero, from the magnitudes and the signs.
TowardZero(n, t) == IF (n >= 0) = (t > 0) THEN Abs(n) \div Abs(t) ELSE -(Abs(n) \div Abs(t))
\* r is x narrowed to the type vt: in its range and congruent to x.
IsNarrowed(vt, r, x) ==
    /\ numeric_limits_min(vt) <= r /\ r <= numeric_limits_max(vt)
    /\ IF vt = "int" THEN r = x ELSE (r - x) % Pow2(digits(vt)) = 0

----------------------------------------------------------------------------
(* The claims.                                                             *)

\* C1: whenever domain_cast returns for a source with min < max and a
\* destination with min <= max, in any of the four call shapes, the result
\* lies in [destination min, destination max].
C1_RangeContainment ==
    (Returned /\ WellFormed) => (DstMin <= ret.val /\ ret.val <= DstMax)

\* C2: converting a value from a domain to the same domain returns the value
\* clamped to the domain, for the same static type on both sides and for
\* dynamic domains with equal bounds.
C2_SameDomainClamps ==
    /\ (call = "static_static" /\ U = T /\ ret.st = "ok")
          => ret.val = Clamp(value, numeric_domain_min(T), numeric_domain_max(T))
    /\ (call = "dynamic_dynamic" /\ to = from /\ from.min <= from.max /\ ret.st = "ok")
          => ret.val = Clamp(value, from.min, from.max)

\* C3: a conversion gives the same result whether a side is named by its
\* static type S or passed as make_domain<S>(), for every destination,
\* the destination S itself included.
C3_StaticDynamicEquivalence ==
    /\ call = "static_static" =>
          /\ Observable(ret) \in {Observable(r) : r \in domain_cast_from_dynamic(U, value, make_domain_of(T))}
          /\ Observable(ret) \in {Observable(r) : r \in domain_cast_to_dynamic(T, make_domain_of(U), value)}
    /\ (call = "dynamic_static" /\ from = make_domain_of(T)) =>
          Observable(ret) \in {Observable(r) : r \in domain_cast(U, T, value)}
    /\ (call = "static_dynamic" /\ to = make_domain_of(U)) =>
          Observable(ret) \in {Observable(r) : r \in domain_cast(U, T, value)}

\* C4: a result that domain_convert or bounded_cast computes without an
\* undefined operation is dstMin + ((clamped - srcMin) * dstExtent) / srcExtent
\* narrowed to the destination type, the product taken before the division
\* and the division rounded toward zero (the 64-bit product of bounded_cast
\* is compared where it is also an int).
C4_ExactFormula ==
    (/\ ret.via \in {"domain_convert", "bounded_cast"}
     /\ ret.st = "ok" /\ ret.ub = {}
     /\ ~MulOverflows(std_max(SrcMin, std_min(SrcMax, value)) - SrcMin, DstMax - DstMin))
    => IsNarrowed(DstType, ret.val,
                  DstMin + TowardZero((std_max(SrcMin, std_min(SrcMax, value)) - SrcMin) * (DstMax - DstMin),
                                      SrcMax - SrcMin))

\* C4 witness: the midpoint 0 of [-1, 1] converted to uint8_t is 127.
C4_Witness ==
    /\ call = "static_static" /\ T = arithmetic_t("int", -1, 1, 1, 1) /\ U = arithmetic("uint8_t")
    /\ value = 0 /\ ret.via = "domain_convert" /\ ret.ub = {} /\ ret.val = 127

\* C5: in every call shape, the minimum of a source with min < max converts
\* to the destination's minimum and its maximum to the destination's maximum.
C5_BoundaryMapping ==
    (Returned /\ WellFormed) =>
        /\ value = SrcMin => ret.val = DstMin
        /\ value = SrcMax => ret.val = DstMax

\* C6: for v1 <= v2 both within the source bounds, the conversion of v1 is
\* at most the conversion of v2.
C6_Monotone ==
    (Returned /\ WellFormed /\ SrcMin <= value /\ value <= SrcMax) =>
        \A v2 \in SampleValues(IF DynamicSource THEN from.T ELSE value_type_of(T)) :
            (value <= v2 /\ v2 <= SrcMax) =>
                \A r2 \in OutcomesOf(call, v2) : r2.st = "ok" => ret.val <= r2.val

\* C7 as stated: signed_int<N> has min = -(2^(N-1) - 1) and max = 2^(N-1) - 1.
C7_SymmetricBounds ==
    \A n \in 1 .. INT_DIGITS :
        (T = signed_int(n) /\ call \in {"numeric_domain", "bounds_of"}) =>
            printed = <<-(Pow2(n - 1) - 1), Pow2(n - 1) - 1>>

\* C7 amended: signed_int<N> has min = -2^(N-1) and max = 2^(N-1) - 1, the
\* full two's-complement range of N bits, in both headers.
C7_TwosComplementBounds ==
    \A n \in 1 .. INT_DIGITS :
        (T = signed_int(n) /\ call \in {"numeric_domain", "bounds_of"}) =>
            printed = <<-Pow2(n - 1), Pow2(n - 1) - 1>>

\* C7 witness: signed_int<12> reports (-2048, 2047).
C7_Witness == T = signed_int(12) /\ call = "numeric_domain" /\ printed = <<-2048, 2047>>

\* C8: for every arithmetic integer type, extent_of<T>() and
\* make_domain<T>().extent() evaluate max - min without overflow and give
\* 2^w - 1, the width of the full range.
C8_ExtentExact ==
    (T.tag = "arithmetic" /\ call \in {"extent_of", "extent"}) =>
        (ret.st = "ok" /\ ret.ub = {} /\ ret.val = Pow2(digits(T.T)) - 1)

\* C9: whenever domain_convert runs on a source with min = max, it divides
\* by zero, whatever the value: no such call gives a defined result.
C9_DivideByZero ==
    (ret.via = "domain_convert" /\ SrcMin = SrcMax) =>
        ("div_by_zero" \in ret.ub /\ call \in DomainCasts)

\* C9 witness: a conversion from the dynamic single point [5, 5] faults in
\* the division.
C9_Witness ==
    /\ call = "dynamic_dynamic" /\ from.min = 5 /\ from.max = 5 /\ value = 2
    /\ ret.via = "domain_convert" /\ ret.st = "trap" /\ ret.ub = {"div_by_zero"}

\* C10: with a dynamic source whose min exceeds its max, domain_cast returns
\* the destination's min for every value, without a fault.
C10_MalformedSource ==
    (DynamicSource /\ from.min > from.max) => (ret.st = "ok" /\ ret.val = DstMin)

====
